---- MODULE Spec2Model ----
(***************************************************************************)
(* The stream-signaling service of the stream server: the WebRTCService    *)
(* class of services/webrtc.ts (room store, socket.io groups, the          *)
(* create/join/relay/query/disconnect handlers and the asynchronous        *)
(* creator check of create-stream).                                        *)
(*                                                                         *)
(* One action is one run-to-completion step of the Node event loop: a      *)
(* synchronous handler runs whole; the create-stream handler is two steps, *)
(* the part before `await prisma.user.findUnique` and the part after it.   *)
(***************************************************************************)
EXTENDS Integers, Sequences, FiniteSets, TLC

\* ------------------------------------------------------------------ bounds
\* Most create-stream events the clients send in a run.
MaxCreates == 2
\* Most join-stream events the clients send in a run.
MaxJoins == 2

\* ------------------------------------------------------------- value sets
\* socket.id of the connections the transport may open.
Sockets == {"c1", "c2", "c3"}
\* Stream identifiers clients name.
StreamIds == {"s1", "s2"}
\* A field the client left out (JavaScript undefined).
NoValue == "undefined"
\* No room / no record (JavaScript undefined / null).
NoRoom == [streamId |-> NoValue]
NoUser == [found |-> FALSE]
\* prisma.user rows: id -> isCreator.  Ids are strings, as socket ids are;
\* nothing in the code keeps a user id from being the text of a socket id,
\* so one row has the id a client learns as its socket.id.
Creators == {"u1", "c1"}
NonCreators == {"u2"}
\* The userId values the client on connection c gives in create-stream.
\* c1 gives its socket.id (a creator's id) or the id of a user who is no
\* creator; c2 gives the id of a creator or its socket.id (no row has it);
\* c3 gives its socket.id (no row has it).
UserIdsOf(c) ==
    CASE c = "c1" -> {"c1", "u2"}
      [] c = "c2" -> {"u1", "c2"}
      [] OTHER    -> {c}
\* The userId values the client on connection c gives in join-stream: its
\* socket.id, and for c2 also its user id.
JoinIdsOf(c) == UserIdsOf(c) \ NonCreators
\* title and category of the create-stream payloads naming userId u.
MetasOf(u) == IF u = "u1" THEN {<<"Live", "Games">>} ELSE {<<NoValue, NoValue>>}
\* offer / answer / candidate bodies.
Bodies == {"sdp"}
\* userId of a relay payload: absent or given.
RelayUserIds == {NoValue, "u1"}
\* userId of a relay payload: absent, empty, or given.
SignalUserIds == {NoValue, "", "u1"}

VARIABLES
    sockets,    \* socket.id -> "new" | "open" | "closed" ("down": the process has exited)
    rooms,      \* this.rooms: the Map, as the sequence of its values in insertion order
    groups,     \* socket.io adapter rooms: streamId -> the sockets joined to it
    pending,    \* create-stream handlers suspended at `await prisma.user.findUnique`
    out,        \* the messages the last step emitted, in order: [event, to, payload]
    aux,        \* history: streamId -> who set the room and who pushed each viewer
    count,      \* history: the create-stream and join-stream events sent so far
    last,       \* history: the event the last step handled
    activeStreams  \* the Map of the server entry point, as the sequence of its values

vars == <<sockets, rooms, groups, pending, out, aux, count, last, activeStreams>>

Open == {c \in Sockets : sockets[c] = "open"}

\* ---------------------------------------------------------------- Map ops
MapIndex(rs, s) ==
    IF \E i \in 1..Len(rs) : rs[i].streamId = s
    THEN CHOOSE i \in 1..Len(rs) : rs[i].streamId = s
    ELSE 0

MapHas(rs, s) == MapIndex(rs, s) # 0

MapGet(rs, s) == IF MapHas(rs, s) THEN rs[MapIndex(rs, s)] ELSE NoRoom

\* A map that puts a new key before the keys it has.
MapSet_Front(rs, s, room) ==
    IF MapHas(rs, s) THEN [rs EXCEPT ![MapIndex(rs, s)] = room]
    ELSE <<room>> \o rs

\* Map.prototype.set: a present key keeps its place, a new key goes last.
MapSet(rs, s, room) ==
    IF MapHas(rs, s) THEN [rs EXCEPT ![MapIndex(rs, s)] = room]
    ELSE Append(rs, room)

MapDelete(rs, s) == SelectSeq(rs, LAMBDA r : r.streamId # s)

MapKeys(rs) == [i \in 1..Len(rs) |-> rs[i].streamId]

\* ------------------------------------------------------------ JS helpers
Falsy(x) == x \in {NoValue, ""}
\* x ?? d: only a missing x gives way to the default.
OrElse_Nullish(x, d) == IF x = NoValue THEN d ELSE x
\* x || d
OrElse(x, d) == IF Falsy(x) THEN d ELSE x

\* Array.prototype.findIndex with (id) => id === x; 0 stands for -1.
FindIndex(seq, x) ==
    IF \E i \in 1..Len(seq) : seq[i] = x
    THEN CHOOSE i \in 1..Len(seq) : seq[i] = x /\ \A j \in 1..(i - 1) : seq[j] # x
    ELSE 0

\* Array.prototype.splice(i): without a delete count the rest goes too.
Splice1_Rest(seq, i) == SubSeq(seq, 1, i - 1)
\* Array.prototype.splice(i, 1)
Splice1(seq, i) == [j \in 1..(Len(seq) - 1) |-> IF j < i THEN seq[j] ELSE seq[j + 1]]

\* ------------------------------------------------------------- messages
Msg(ev, to, payload) == [event |-> ev, to |-> to, payload |-> payload]

\* socket.emit taken for io.emit: every connected socket is sent the message.
ToSelf_All(c, conn) == conn
\* socket.emit: to the socket itself, when it is still connected.
ToSelf(c, conn) == {c} \cap conn
\* socket.to(room) taken for io.to(room): the sender is not left out.
ToOthers_All(c, grp, s) == grp[s]
\* socket.to(room): the members of the group but the sender.
ToOthers(c, grp, s) == grp[s] \ {c}
\* io.to(room): the members of the group.
ToGroup(grp, s) == grp[s]
\* io.emit: every connected socket.
ToAll(conn) == conn

getActiveStreamsInfo(rs) ==
    [i \in 1..Len(rs) |->
        [id       |-> rs[i].streamId,
         title    |-> OrElse(rs[i].title, "Untitled Stream"),
         viewers  |-> Len(rs[i].viewers),
         category |-> OrElse(rs[i].category, "Uncategorized"),
         streamer |-> rs[i].broadcaster,
         isLive   |-> TRUE]]

\* ---------------------------------------------------------- creator check
findUnique(userId) ==
    IF userId \in Creators THEN [found |-> TRUE, isCreator |-> TRUE]
    ELSE IF userId \in NonCreators THEN [found |-> TRUE, isCreator |-> FALSE]
    ELSE NoUser

\* The creator check with the isCreator test left out.
NotCreator_RowOnly(user) == ~user.found

\* if (!user || !user.isCreator)
NotCreator(user) == ~user.found \/ ~user.isCreator

\* What the awaited lookup can come back with: the row, or a thrown error.
LookupError == [found |-> FALSE, error |-> TRUE]
LookupResults(userId) == {findUnique(userId), LookupError}

\* ------------------------------------------------------------- histories
NoAux == [by |-> NoValue, joinedBy |-> <<>>]
Event(kind, c, s, u, result) ==
    [kind |-> kind, sock |-> c, streamId |-> s, userId |-> u, result |-> result,
     prev |-> NoValue, prevViewers |-> 0]


Init ==
    /\ sockets = [c \in Sockets |-> "new"]
    /\ rooms = <<>>
    /\ groups = [s \in StreamIds |-> {}]
    /\ pending = {}
    /\ out = <<>>
    /\ aux = [s \in StreamIds |-> NoAux]
    /\ count = [creates |-> 0, joins |-> 0]
    /\ last = Event("init", NoValue, NoValue, NoValue, NoValue)
    /\ activeStreams = <<>>

\* io.on("connection"): the handlers are registered on the new socket.
Connect(c) ==
    /\ sockets[c] = "new"
    /\ sockets' = [sockets EXCEPT ![c] = "open"]
    /\ out' = <<>>
    /\ last' = Event("connection", c, NoValue, NoValue, NoValue)
    /\ UNCHANGED <<rooms, groups, pending, aux, count, activeStreams>>

\* A suspended create-stream handler: its socket and its destructured payload.
Request(c, s, u, meta) ==
    [sock |-> c, streamId |-> s, userId |-> u, title |-> meta[1], category |-> meta[2]]

\* create-stream storing the room before the creator check has returned.
CreateStream_Eager(c, s, u, meta) ==
    /\ sockets[c] = "open"
    /\ count.creates < MaxCreates
    /\ count' = [count EXCEPT !.creates = @ + 1]
    /\ Request(c, s, u, meta) \notin pending
    /\ pending' = pending \cup {Request(c, s, u, meta)}
    /\ rooms' = MapSet(rooms, s, [streamId |-> s, broadcaster |-> u, viewers |-> <<>>,
                                  title |-> meta[1], category |-> meta[2]])
    /\ aux' = [aux EXCEPT ![s] = [by |-> c, joinedBy |-> <<>>]]
    /\ out' = <<>>
    /\ last' = Event("create-stream", c, s, u, "suspended")
    /\ UNCHANGED <<sockets, groups, activeStreams>>

\* create-stream, up to the await: the payload is destructured and the
\* lookup is issued; the handler is suspended and the event loop goes on.
CreateStream(c, s, u, meta) ==
    /\ sockets[c] = "open"
    /\ count.creates < MaxCreates
    /\ count' = [count EXCEPT !.creates = @ + 1]
    /\ Request(c, s, u, meta) \notin pending
    /\ pending' = pending \cup {Request(c, s, u, meta)}
    /\ out' = <<>>
    /\ last' = Event("create-stream", c, s, u, "suspended")
    /\ UNCHANGED <<sockets, rooms, groups, aux, activeStreams>>

\* The value of the room create-stream stores.
NewRoom(p) ==
    [streamId    |-> p.streamId,
     broadcaster |-> p.userId,
     viewers     |-> <<>>,
     title       |-> p.title,
     category    |-> p.category]

\* The outcome of the creator check for what the lookup came back with.
CreatorCheck(user) ==
    IF user = LookupError THEN "error"
    ELSE IF NotCreator(user) THEN "denied"
    ELSE "allowed"

\* The handlers without their socket.join(streamId).
SocketJoin_Never(grp, c, s, conn) == grp
\* socket.join(streamId); after its disconnect a socket joins nothing.
SocketJoin(grp, c, s, conn) ==
    IF c \in conn THEN [grp EXCEPT ![s] = @ \cup {c}] ELSE grp

\* create-stream that leaves a room it finds under the streamId alone.
RoomsAfterCreate_IfAbsent(rs, p) ==
    IF MapHas(rs, p.streamId) THEN rs ELSE MapSet(rs, p.streamId, NewRoom(p))

\* create-stream that resets a room it finds but leaves it its broadcaster.
RoomsAfterCreate_KeepBroadcaster(rs, p) ==
    IF MapHas(rs, p.streamId)
    THEN MapSet(rs, p.streamId,
                [NewRoom(p) EXCEPT !.broadcaster = MapGet(rs, p.streamId).broadcaster])
    ELSE MapSet(rs, p.streamId, NewRoom(p))

\* The room store after the creator check let request p through.
RoomsAfterCreate(rs, p) == MapSet(rs, p.streamId, NewRoom(p))

\* The update of create-stream sent with socket.emit instead of io.emit.
CreatedMessages_ToSelf(p, rs, conn) ==
    << Msg("stream-created", ToSelf(p.sock, conn), [streamId |-> p.streamId]),
       Msg("stream-update", ToSelf(p.sock, conn), getActiveStreamsInfo(rs)) >>

\* What the rest of the handler emits once the check let request p through.
CreatedMessages(p, rs, conn) ==
    << Msg("stream-created", ToSelf(p.sock, conn), [streamId |-> p.streamId]),
       Msg("stream-update", ToAll(conn), getActiveStreamsInfo(rs)) >>

\* The catch block answering with the text of the denial.
FailedMessages_SameText(p, outcome, conn) ==
    << Msg("stream-creation-failed", ToSelf(p.sock, conn),
           [error |-> "Only approved creators can start a stream."]) >>

\* What the handler emits when the check fails.
FailedMessages(p, outcome, conn) ==
    << Msg("stream-creation-failed", ToSelf(p.sock, conn),
           [error |-> IF outcome = "denied"
                      THEN "Only approved creators can start a stream."
                      ELSE "Failed to verify creator status."]) >>

\* A continuation that gives up when its socket has disconnected meanwhile.
CreatorCheckReturns_UnlessGone(p, user) ==
    /\ p \in pending
    /\ user \in LookupResults(p.userId)
    /\ pending' = pending \ {p}
    /\ LET outcome == CreatorCheck(user) IN
       /\ last' = Event("creator-check", p.sock, p.streamId, p.userId, outcome)
       /\ IF outcome = "allowed" /\ p.sock \in Open
          THEN /\ rooms' = RoomsAfterCreate(rooms, p)
               /\ groups' = SocketJoin(groups, p.sock, p.streamId, Open)
               /\ aux' = [aux EXCEPT ![p.streamId] =
                             [by |-> p.sock, joinedBy |-> <<>>]]
               /\ out' = CreatedMessages(p, rooms', Open)
          ELSE /\ out' = IF outcome = "allowed" THEN <<>> ELSE FailedMessages(p, outcome, Open)
               /\ UNCHANGED <<rooms, groups, aux>>
    /\ UNCHANGED <<sockets, count, activeStreams>>

\* create-stream, from the await on: the lookup has come back.
CreatorCheckReturns(p, user) ==
    /\ p \in pending
    /\ user \in LookupResults(p.userId)
    /\ pending' = pending \ {p}
    /\ LET outcome == CreatorCheck(user) IN
       \* prev, prevViewers: the broadcaster and the number of viewers of the
       \* room the request replaces, if it replaces one
       /\ last' = [Event("creator-check", p.sock, p.streamId, p.userId, outcome)
                      EXCEPT !.prev = IF outcome = "allowed" /\ MapHas(rooms, p.streamId)
                                      THEN MapGet(rooms, p.streamId).broadcaster
                                      ELSE NoValue,
                             !.prevViewers = IF outcome = "allowed" /\ MapHas(rooms, p.streamId)
                                             THEN Len(MapGet(rooms, p.streamId).viewers)
                                             ELSE 0]
       /\ IF outcome = "allowed"
          THEN /\ rooms' = RoomsAfterCreate(rooms, p)
               /\ groups' = SocketJoin(groups, p.sock, p.streamId, Open)
               /\ aux' = [aux EXCEPT ![p.streamId] =
                             [by |-> p.sock, joinedBy |-> <<>>]]
               /\ out' = CreatedMessages(p, rooms', Open)
          ELSE /\ out' = FailedMessages(p, outcome, Open)
               /\ UNCHANGED <<rooms, groups, aux>>
    /\ UNCHANGED <<sockets, count, activeStreams>>

\* join-stream keeping the viewer list free of repeated ids.
RoomsAfterJoin_NoRepeat(rs, s, u) ==
    IF \E i \in 1..Len(MapGet(rs, s).viewers) : MapGet(rs, s).viewers[i] = u
    THEN rs
    ELSE [rs EXCEPT ![MapIndex(rs, s)].viewers = Append(@, u)]

\* join-stream recording the joiner as the room's broadcaster.
RoomsAfterJoin_TakesOver(rs, s, u) ==
    [rs EXCEPT ![MapIndex(rs, s)].broadcaster = u,
               ![MapIndex(rs, s)].viewers = Append(@, u)]

\* The room store after join-stream pushed userId on room s.
RoomsAfterJoin(rs, s, u) ==
    [rs EXCEPT ![MapIndex(rs, s)].viewers = Append(@, u)]

\* join-stream emitting stream-started before viewer-joined.
JoinedMessages_Swapped(c, s, u, rs, grp, conn) ==
    << Msg("stream-started", ToOthers(c, grp, s), [streamId |-> s, userId |-> u]),
       Msg("viewer-joined", ToOthers(c, grp, s), [userId |-> u, streamId |-> s]),
       Msg("stream-update", ToAll(conn), getActiveStreamsInfo(rs)) >>

\* What join-stream emits for a room it found.
JoinedMessages(c, s, u, rs, grp, conn) ==
    << Msg("viewer-joined", ToOthers(c, grp, s), [userId |-> u, streamId |-> s]),
       Msg("stream-started", ToOthers(c, grp, s), [streamId |-> s, userId |-> u]),
       Msg("stream-update", ToAll(conn), getActiveStreamsInfo(rs)) >>

JoinStream(c, s, u) ==
    /\ sockets[c] = "open"
    /\ count.joins < MaxJoins
    /\ count' = [count EXCEPT !.joins = @ + 1]
    /\ IF MapHas(rooms, s)
       THEN /\ rooms' = RoomsAfterJoin(rooms, s, u)
            /\ groups' = SocketJoin(groups, c, s, Open)
            /\ aux' = [aux EXCEPT ![s].joinedBy = Append(@, c)]
            /\ out' = JoinedMessages(c, s, u, rooms', groups', Open)
            /\ last' = Event("join-stream", c, s, u, "joined")
       ELSE /\ out' = << Msg("error", ToSelf(c, Open), [message |-> "Stream not found"]) >>
            /\ last' = Event("join-stream", c, s, u, "not-found")
            /\ UNCHANGED <<rooms, groups, aux>>
    /\ UNCHANGED <<sockets, pending, activeStreams>>

\* The payload the relay handlers send on: the body under the event's own
\* key and userId, `data.userId || socket.id`.
RelayPayload(c, body, u) == [body |-> body, userId |-> OrElse(u, c)]

\* socket.to(data.streamId).emit(kind, ...)
RelayMessages(kind, c, s, body, u, grp) ==
    << Msg(kind, ToOthers(c, grp, s), RelayPayload(c, body, u)) >>

\* A relay that checks for the room and for the sender's membership first.
Relay_MembersOnly(kind, c, s, body, u) ==
    /\ sockets[c] = "open"
    /\ out' = IF MapHas(rooms, s) /\ c \in groups[s]
              THEN RelayMessages(kind, c, s, body, u, groups)
              ELSE <<>>
    /\ last' = Event(kind, c, s, u, body)
    /\ UNCHANGED <<sockets, rooms, groups, pending, aux, count, activeStreams>>

Relay(kind, c, s, body, u) ==
    /\ sockets[c] = "open"
    /\ out' = RelayMessages(kind, c, s, body, u, groups)
    /\ last' = Event(kind, c, s, u, body)
    /\ UNCHANGED <<sockets, rooms, groups, pending, aux, count, activeStreams>>

Offer(c, s, body, u) == Relay("offer", c, s, body, u)
Answer(c, s, body, u) == Relay("answer", c, s, body, u)
IceCandidate(c, s, body, u) == Relay("ice-candidate", c, s, body, u)

\* A client emits "stream-ended": setupSocketHandlers registers no listener
\* for it (the service only sends that event), so the event is dropped.
StreamEnded(c, s) ==
    /\ sockets[c] = "open"
    /\ out' = <<>>
    /\ last' = Event("stream-ended", c, s, NoValue, NoValue)
    /\ UNCHANGED <<sockets, rooms, groups, pending, aux, count, activeStreams>>

\* The events whose handler reads its argument unguarded: the payload is
\* destructured or dereferenced, the reply callback is called.
UnguardedEvents ==
    {"create-stream", "join-stream", "offer", "answer", "ice-candidate", "get-active-streams"}

\* What becomes of the TypeError a handler throws.  A synchronous listener
\* throws out of the event dispatch: an uncaught exception, the process
\* exits.  The async create-stream listener returns a rejected promise no
\* one handles: the runtime exits or only warns, by its version and flags.
Uncaught(ev) == IF ev = "create-stream" THEN {"exit", "warning"} ELSE {"exit"}

\* Event ev arrives on connection c without a payload (get-active-streams:
\* without a callback).  The handler throws at its first statement, before
\* it has changed anything.  When the process exits, the room store, the
\* groups and the suspended handlers go with it and every connection is
\* down.
MissingPayload(ev, c, outcome) ==
    /\ sockets[c] = "open"
    /\ outcome \in Uncaught(ev)
    /\ out' = <<>>
    /\ last' = Event("uncaught", c, NoValue, NoValue, ev)
    /\ IF outcome = "exit"
       THEN /\ sockets' = [d \in Sockets |-> "down"]
            /\ rooms' = <<>>
            /\ groups' = [s \in StreamIds |-> {}]
            /\ pending' = {}
            /\ aux' = [s \in StreamIds |-> NoAux]
       ELSE UNCHANGED <<sockets, rooms, groups, pending, aux>>
    /\ UNCHANGED <<count, activeStreams>>

\* get-active-streams answering with a broadcast instead of the callback.
GetActiveStreams_Broadcast(c) ==
    /\ sockets[c] = "open"
    /\ out' = << Msg("callback", ToAll(Open), getActiveStreamsInfo(rooms)) >>
    /\ last' = Event("get-active-streams", c, NoValue, NoValue, NoValue)
    /\ UNCHANGED <<sockets, rooms, groups, pending, aux, count, activeStreams>>

\* get-active-streams: the snapshot goes to the caller's callback.
GetActiveStreams(c) ==
    /\ sockets[c] = "open"
    /\ out' = << Msg("callback", ToSelf(c, Open), getActiveStreamsInfo(rooms)) >>
    /\ last' = Event("get-active-streams", c, NoValue, NoValue, NoValue)
    /\ UNCHANGED <<sockets, rooms, groups, pending, aux, count, activeStreams>>

\* Whether handleDisconnect takes room for the disconnected one's own.
IsBroadcaster(room, socketId) == room.broadcaster = socketId

\* One call of the forEach callback of handleDisconnect, on the room under
\* key k; st is [rooms, aux, out] as the calls before it left them.
DisconnectVisit(st, k, socketId, grp, conn) ==
    LET room == MapGet(st.rooms, k) IN
    IF IsBroadcaster(room, socketId)
    THEN LET rs == MapDelete(st.rooms, k) IN
         [rooms |-> rs,
          aux   |-> [st.aux EXCEPT ![k] = NoAux],
          out   |-> st.out \o
                    << Msg("stream-ended", ToGroup(grp, k), k),
                       Msg("stream-update", ToAll(conn), getActiveStreamsInfo(rs)) >>]
    ELSE LET viewerIndex == FindIndex(room.viewers, socketId) IN
         IF viewerIndex # 0
         THEN LET rs == [st.rooms EXCEPT ![MapIndex(st.rooms, k)].viewers =
                             Splice1(@, viewerIndex)] IN
              [rooms |-> rs,
               aux   |-> [st.aux EXCEPT ![k].joinedBy = Splice1(@, viewerIndex)],
               out   |-> Append(st.out,
                           Msg("stream-update", ToAll(conn), getActiveStreamsInfo(rs)))]
         ELSE st

\* this.rooms.forEach: the keys present at the start, in insertion order
\* (a callback deletes no key but its own).
RECURSIVE ForEachRoom(_, _, _, _, _)
ForEachRoom(keys, st, socketId, grp, conn) ==
    IF keys = <<>> THEN st
    ELSE ForEachRoom(Tail(keys),
                     DisconnectVisit(st, Head(keys), socketId, grp, conn),
                     socketId, grp, conn)

\* A cleanup that stops at the first room it has something to do in.
handleDisconnect_FirstRoomOnly(socketId, rs, ax, grp, conn) ==
    LET st0  == [rooms |-> rs, aux |-> ax, out |-> <<>>]
        keys == MapKeys(rs)
        hits == {i \in 1..Len(keys) : DisconnectVisit(st0, keys[i], socketId, grp, conn) # st0}
    IN IF hits = {} THEN st0
       ELSE DisconnectVisit(st0, keys[CHOOSE i \in hits : \A j \in hits : i <= j],
                            socketId, grp, conn)

\* A cleanup that broadcasts once, when it is through with all the rooms.
handleDisconnect_OneUpdateAtEnd(socketId, rs, ax, grp, conn) ==
    LET st == ForEachRoom(MapKeys(rs), [rooms |-> rs, aux |-> ax, out |-> <<>>],
                          socketId, grp, conn)
    IN [st EXCEPT !.out =
           IF st.out = <<>> THEN <<>>
           ELSE Append(SelectSeq(st.out, LAMBDA m : m.event # "stream-update"),
                       Msg("stream-update", ToAll(conn), getActiveStreamsInfo(st.rooms)))]

handleDisconnect(socketId, rs, ax, grp, conn) ==
    ForEachRoom(MapKeys(rs), [rooms |-> rs, aux |-> ax, out |-> <<>>],
                socketId, grp, conn)

\* A cleanup that also empties the group of every room it deletes
\* (io.socketsLeave), which handleDisconnect does not.
Disconnect_EmptiesGroups(c) ==
    /\ sockets[c] = "open"
    /\ sockets' = [sockets EXCEPT ![c] = "closed"]
    /\ LET grp == [s \in StreamIds |-> groups[s] \ {c}]
           st  == handleDisconnect(c, rooms, aux, grp, Open \ {c})
       IN /\ rooms' = st.rooms
          /\ aux' = st.aux
          /\ out' = st.out
          /\ groups' = [s \in StreamIds |->
                           IF MapHas(rooms, s) /\ ~MapHas(st.rooms, s) THEN {} ELSE grp[s]]
    /\ last' = Event("disconnect", c, NoValue, NoValue, NoValue)
    /\ UNCHANGED <<pending, count, activeStreams>>

\* The cleanup hooked on "disconnecting", which fires while the socket is
\* still in its groups.
Disconnect_WhileInGroups(c) ==
    /\ sockets[c] = "open"
    /\ sockets' = [sockets EXCEPT ![c] = "closed"]
    /\ groups' = [s \in StreamIds |-> groups[s] \ {c}]
    /\ LET st == handleDisconnect(c, rooms, aux, groups, Open \ {c}) IN
       /\ rooms' = st.rooms
       /\ aux' = st.aux
       /\ out' = st.out
    /\ last' = Event("disconnect", c, NoValue, NoValue, NoValue)
    /\ UNCHANGED <<pending, count, activeStreams>>

\* The transport closes connection c: socket.io takes the socket out of
\* every group and of the namespace, then fires "disconnect".
Disconnect(c) ==
    /\ sockets[c] = "open"
    /\ sockets' = [sockets EXCEPT ![c] = "closed"]
    /\ groups' = [s \in StreamIds |-> groups[s] \ {c}]
    /\ LET st == handleDisconnect(c, rooms, aux, groups', Open \ {c}) IN
       /\ rooms' = st.rooms
       /\ aux' = st.aux
       /\ out' = st.out
    /\ last' = Event("disconnect", c, NoValue, NoValue, NoValue)
    /\ UNCHANGED <<pending, count, activeStreams>>

\* The connections that take part in the runs of Spec.
Clients == {"c1", "c2"}

Next ==
    \/ \E c \in Clients : Connect(c)
    \/ \E c \in Clients, s \in StreamIds :
          \E u \in UserIdsOf(c) : \E m \in MetasOf(u) : CreateStream(c, s, u, m)
    \/ \E p \in pending : \E user \in LookupResults(p.userId) : CreatorCheckReturns(p, user)
    \/ \E c \in Clients, s \in StreamIds : \E u \in JoinIdsOf(c) : JoinStream(c, s, u)
    \/ \E c \in Clients : GetActiveStreams(c)
    \/ \E c \in Clients : Disconnect(c)

Spec == Init /\ [][Next]_vars


\* The runs of SpecRelay: all three connections, with the signalling relays.
\* Each connection gives its socket.id as userId; create-stream comes from
\* the connection whose id is a creator's, and the lookup does not fail.
NextRelay ==
    \/ \E c \in Sockets : Connect(c)
    \/ \E c \in Sockets \cap Creators, s \in StreamIds :
          \E m \in MetasOf(c) : CreateStream(c, s, c, m)
    \/ \E p \in pending : CreatorCheckReturns(p, findUnique(p.userId))
    \/ \E c \in Sockets, s \in StreamIds : JoinStream(c, s, c)
    \/ \E c \in Sockets, s \in StreamIds, b \in Bodies, u \in RelayUserIds : Offer(c, s, b, u)
    \/ \E c \in Sockets, s \in StreamIds, b \in Bodies, u \in RelayUserIds : Answer(c, s, b, u)
    \/ \E c \in Sockets, s \in StreamIds, b \in Bodies, u \in RelayUserIds :
          IceCandidate(c, s, b, u)
    \/ \E c \in Sockets : Disconnect(c)

SpecRelay == Init /\ [][NextRelay]_vars

\* The runs of SpecSignal: two connections that send every event a client
\* of the service sends, the relays with userId absent, empty or given and
\* the client's own "stream-ended" and events without payload among them.
\* Each connection gives its socket.id as userId of create-stream and
\* join-stream, and the lookup does not fail.
NextSignal ==
    \/ \E c \in Clients : Connect(c)
    \/ \E c \in Clients, s \in StreamIds : \E m \in MetasOf(c) : CreateStream(c, s, c, m)
    \/ \E p \in pending : CreatorCheckReturns(p, findUnique(p.userId))
    \/ \E c \in Clients, s \in StreamIds : JoinStream(c, s, c)
    \/ \E c \in Clients, s \in StreamIds, b \in Bodies, u \in SignalUserIds : Offer(c, s, b, u)
    \/ \E c \in Clients, s \in StreamIds, b \in Bodies, u \in SignalUserIds : Answer(c, s, b, u)
    \/ \E c \in Clients, s \in StreamIds, b \in Bodies, u \in SignalUserIds :
          IceCandidate(c, s, b, u)
    \/ \E c \in Clients, s \in StreamIds : StreamEnded(c, s)
    \/ \E c \in Clients, ev \in UnguardedEvents : \E o \in Uncaught(ev) : MissingPayload(ev, c, o)
    \/ \E c \in Clients : GetActiveStreams(c)
    \/ \E c \in Clients : Disconnect(c)

SpecSignal == Init /\ [][NextSignal]_vars

\* ------------------------------------------------- the server entry point
\* The coordinator the server entry point sets up on its own io: a Map
\* activeStreams of stream summaries, no creator check, no groups, and a
\* disconnect listener that does nothing.
StreamIndex(streams, s) ==
    IF \E i \in 1..Len(streams) : streams[i].id = s
    THEN CHOOSE i \in 1..Len(streams) : streams[i].id = s
    ELSE 0

StreamHas(streams, s) == StreamIndex(streams, s) # 0

NoStream == [id |-> NoValue]

StreamGet(streams, s) == IF StreamHas(streams, s) THEN streams[StreamIndex(streams, s)] ELSE NoStream

\* The summary create-stream stores.
NewStream(s, u) ==
    [id        |-> s,
     title     |-> "New Stream",
     streamer  |-> u,
     viewers   |-> 0,
     thumbnail |-> "null",
     category  |-> "Uncategorized",
     isLive    |-> TRUE]

\* activeStreams.set(streamId, ...)
StreamsAfterCreate(streams, s, u) ==
    IF StreamHas(streams, s) THEN [streams EXCEPT ![StreamIndex(streams, s)] = NewStream(s, u)]
    ELSE Append(streams, NewStream(s, u))

\* stream.viewers += 1
StreamsAfterJoin(streams, s) ==
    [streams EXCEPT ![StreamIndex(streams, s)].viewers = @ + 1]

\* activeStreams.delete(streamId)
StreamsAfterEnd(streams, s) == SelectSeq(streams, LAMBDA v : v.id # s)

\* io.emit("stream-update", Array.from(activeStreams.values()))
EntryUpdate(streams, conn) == << Msg("stream-update", ToAll(conn), streams) >>

EntryGetActiveStreams(c) ==
    /\ sockets[c] = "open"
    /\ out' = << Msg("callback", ToSelf(c, Open), activeStreams) >>
    /\ last' = Event("get-active-streams", c, NoValue, NoValue, NoValue)
    /\ UNCHANGED <<sockets, rooms, groups, pending, aux, count, activeStreams>>

\* create-stream of the entry point; aux records the connection it came from.
EntryCreateStream(c, s, u) ==
    /\ sockets[c] = "open"
    /\ count.creates < MaxCreates
    /\ count' = [count EXCEPT !.creates = @ + 1]
    /\ activeStreams' = StreamsAfterCreate(activeStreams, s, u)
    /\ aux' = [aux EXCEPT ![s] = [by |-> c, joinedBy |-> <<>>]]
    /\ out' = EntryUpdate(activeStreams', Open)
    /\ last' = Event("create-stream", c, s, u, NoValue)
    /\ UNCHANGED <<sockets, rooms, groups, pending>>

EntryJoinStream(c, s, u) ==
    /\ sockets[c] = "open"
    /\ count.joins < MaxJoins
    /\ count' = [count EXCEPT !.joins = @ + 1]
    /\ IF StreamHas(activeStreams, s)
       THEN /\ activeStreams' = StreamsAfterJoin(activeStreams, s)
            /\ aux' = [aux EXCEPT ![s].joinedBy = Append(@, c)]
            /\ out' = EntryUpdate(activeStreams', Open)
            /\ last' = Event("join-stream", c, s, u, "joined")
       ELSE /\ out' = <<>>
            /\ last' = Event("join-stream", c, s, u, "not-found")
            /\ UNCHANGED <<activeStreams, aux>>
    /\ UNCHANGED <<sockets, rooms, groups, pending>>

\* A stream-ended handler that lets only the connection that created the
\* stream end it.
EntryStreamEnded_CreatorOnly(c, s) ==
    /\ sockets[c] = "open"
    /\ IF aux[s].by = c
       THEN /\ activeStreams' = StreamsAfterEnd(activeStreams, s)
            /\ aux' = [aux EXCEPT ![s] = NoAux]
       ELSE UNCHANGED <<activeStreams, aux>>
    /\ out' = EntryUpdate(activeStreams', Open)
    /\ last' = [Event("stream-ended", c, s, NoValue, NoValue) EXCEPT !.prev = aux[s].by]
    /\ UNCHANGED <<sockets, rooms, groups, pending, count>>

\* stream-ended of the entry point; prev records the connection that had
\* created the stream it names.
EntryStreamEnded(c, s) ==
    /\ sockets[c] = "open"
    /\ activeStreams' = StreamsAfterEnd(activeStreams, s)
    /\ aux' = [aux EXCEPT ![s] = NoAux]
    /\ out' = EntryUpdate(activeStreams', Open)
    /\ last' = [Event("stream-ended", c, s, NoValue, NoValue) EXCEPT !.prev = aux[s].by]
    /\ UNCHANGED <<sockets, rooms, groups, pending, count>>

\* A disconnect listener that ends the streams the connection created.
EntryDisconnect_EndsOwn(c) ==
    /\ sockets[c] = "open"
    /\ sockets' = [sockets EXCEPT ![c] = "closed"]
    /\ activeStreams' = SelectSeq(activeStreams, LAMBDA v : aux[v.id].by # c)
    /\ out' = <<>>
    /\ last' = Event("disconnect", c, NoValue, NoValue, NoValue)
    /\ UNCHANGED <<rooms, groups, pending, aux, count>>

\* disconnect of the entry point: the listener has an empty body.
EntryDisconnect(c) ==
    /\ sockets[c] = "open"
    /\ sockets' = [sockets EXCEPT ![c] = "closed"]
    /\ out' = <<>>
    /\ last' = Event("disconnect", c, NoValue, NoValue, NoValue)
    /\ UNCHANGED <<rooms, groups, pending, aux, count, activeStreams>>

\* The runs of SpecEntry: the two connections against the coordinator of
\* the entry point.
NextEntry ==
    \/ \E c \in Clients : Connect(c)
    \/ \E c \in Clients, s \in StreamIds : \E u \in UserIdsOf(c) : EntryCreateStream(c, s, u)
    \/ \E c \in Clients, s \in StreamIds : \E u \in JoinIdsOf(c) : EntryJoinStream(c, s, u)
    \/ \E c \in Clients, s \in StreamIds : EntryStreamEnded(c, s)
    \/ \E c \in Clients : EntryGetActiveStreams(c)
    \/ \E c \in Clients : EntryDisconnect(c)

SpecEntry == Init /\ [][NextEntry]_vars

\* ================================================================ claims
RelayKinds == {"offer", "answer", "ice-candidate"}

\* The entries the snapshot lists under id s.
Listed(rs, s) ==
    {i \in 1..Len(getActiveStreamsInfo(rs)) : getActiveStreamsInfo(rs)[i].id = s}

\* The viewer count get-active-streams reports for s.
ReportedViewers(rs, s) ==
    getActiveStreamsInfo(rs)[CHOOSE i \in Listed(rs, s) : TRUE].viewers

\* The messages of a step that carry event ev.
Emitted(msgs, ev) == SelectSeq(msgs, LAMBDA m : m.event = ev)

\* C1: a create-stream whose userId is no creator's (no row, or a row with
\* isCreator false) leaves the room store and the groups as they were, in
\* the step that receives it and in the step that ends it, and the one
\* message it produces is a stream-creation-failed for the requester.
C1_DeniedCreateChangesNothing ==
    [][ /\ (last'.kind = "create-stream" /\ last'.userId \notin Creators)
           => (rooms' = rooms /\ groups' = groups /\ out' = <<>>)
        /\ (last'.kind = "creator-check" /\ last'.userId \notin Creators)
           => /\ rooms' = rooms
              /\ groups' = groups
              /\ Len(out') = 1
              /\ out'[1].event = "stream-creation-failed"
              /\ out'[1].to = {last'.sock} \cap Open
      ]_vars

\* A create-stream of a user who has a row but is no creator was turned
\* down while a room was live, and the requester was told.
C1_Witness ==
    /\ last.kind = "creator-check"
    /\ last.userId \in NonCreators
    /\ last.result = "denied"
    /\ rooms # <<>>
    /\ Len(out) = 1
    /\ out[1].to = {last.sock}

\* C2 (the claim as stated): when the connection that created a live room
\* disconnects, the room leaves the store and one stream-ended with its
\* streamId goes to the connections still in its group.
C2_CreatorDisconnectEndsRoom ==
    [][ last'.kind = "disconnect"
        => \A s \in StreamIds :
              (MapHas(rooms, s) /\ aux[s].by = last'.sock)
              => /\ ~MapHas(rooms', s)
                 /\ \E i \in 1..Len(out') :
                       /\ out'[i] = Msg("stream-ended", groups'[s], s)
                       /\ \A j \in 1..Len(out') :
                             (out'[j].event = "stream-ended" /\ j # i)
                             => out'[j].payload # s
      ]_vars

\* The sockets that pushed an entry still on the viewer list of s.
JoinedBy(ax, s) == {ax[s].joinedBy[i] : i \in 1..Len(ax[s].joinedBy)}

\* C3 (the claim as stated): when a connection that joined rooms as a
\* viewer disconnects, each room it joined (and did not create) reports
\* one viewer fewer and every room it neither joined nor created is as it
\* was.
C3_ViewerDisconnectDecrements ==
    [][ last'.kind = "disconnect"
        => \A s \in StreamIds :
              (MapHas(rooms, s) /\ aux[s].by # last'.sock)
              => IF last'.sock \in JoinedBy(aux, s)
                 THEN /\ MapHas(rooms', s)
                      /\ ReportedViewers(rooms', s) = ReportedViewers(rooms, s) - 1
                 ELSE MapGet(rooms', s) = MapGet(rooms, s)
      ]_vars

\* C4: the viewer count the snapshot reports for a live room is the number
\* of join-stream requests that succeeded on it since the create-stream
\* that set it (less the entries a disconnect took off).
C4_ViewersCountJoins ==
    \A s \in StreamIds :
        MapHas(rooms, s)
        => /\ Listed(rooms, s) # {}
           /\ ReportedViewers(rooms, s) = Len(aux[s].joinedBy)

\* Two join-stream requests with the same userId succeeded on one room and
\* the snapshot reports two viewers.
C4_Witness ==
    /\ last.kind = "join-stream"
    /\ last.result = "joined"
    /\ Len(aux[last.streamId].joinedBy) = 2
    /\ MapGet(rooms, last.streamId).viewers = <<last.userId, last.userId>>
    /\ ReportedViewers(rooms, last.streamId) = 2

\* C5: a relayed offer, answer or ice-candidate is one message, delivered
\* to every member of the named group but never to its sender.
C5_RelayToOthersOnce ==
    last.kind \in RelayKinds
    => /\ Len(out) = 1
       /\ out[1].event = last.kind
       /\ last.sock \notin out[1].to
       /\ \A c \in Sockets : (c \in groups[last.streamId] /\ c # last.sock) => c \in out[1].to
       /\ out[1].to \subseteq groups[last.streamId]

\* A member of a group of three relayed to the two others.
C5_Witness ==
    /\ last.kind \in RelayKinds
    /\ last.sock \in groups[last.streamId]
    /\ Cardinality(groups[last.streamId]) = 3
    /\ Cardinality(out[1].to) = 2

\* C6 (the claim as stated): no room names a connection whose disconnect
\* has been handled, as broadcaster or in its viewer list.
C6_NoStaleIdentifier ==
    \A c \in Sockets :
        sockets[c] = "closed"
        => \A i \in 1..Len(rooms) :
              /\ rooms[i].broadcaster # c
              /\ \A j \in 1..Len(rooms[i].viewers) : rooms[i].viewers[j] # c

\* C7 (the claim as stated): while s stays in the store its broadcaster
\* never changes.
C7_BroadcasterNeverChanges ==
    [][ \A s \in StreamIds :
           (MapHas(rooms, s) /\ MapHas(rooms', s))
           => MapGet(rooms', s).broadcaster = MapGet(rooms, s).broadcaster
      ]_vars

\* C7 (amended): while s stays in the store its broadcaster changes only
\* in the step where a create-stream naming s has passed the creator check
\* and replaces the room.
C7_BroadcasterChangesOnlyByCreate ==
    [][ \A s \in StreamIds :
           (/\ MapHas(rooms, s)
            /\ MapHas(rooms', s)
            /\ MapGet(rooms', s).broadcaster # MapGet(rooms, s).broadcaster)
           => /\ last'.kind = "creator-check"
              /\ last'.result = "allowed"
              /\ last'.streamId = s
              /\ MapGet(rooms', s).broadcaster = last'.userId
      ]_vars

\* A create-stream replaced a live room whose broadcaster was another id.
C7_Witness ==
    /\ last.kind = "creator-check"
    /\ last.result = "allowed"
    /\ last.prev # NoValue
    /\ last.prev # last.userId
    /\ MapGet(rooms, last.streamId).broadcaster = last.userId

\* What of a room does not change while it is the same room.
Identity(rs, ax, s) ==
    <<MapGet(rs, s).broadcaster, MapGet(rs, s).title, MapGet(rs, s).category, ax[s].by>>

\* C8: a room enters the store, or is replaced, only in the step that runs
\* after the creator check returned 'allowed', and that step sets the room
\* of the request alone; the step that receives create-stream and every
\* step handled during the suspension find the store without it.
C8_RoomSetOnlyAfterCheck ==
    [][ IF last'.kind = "creator-check" /\ last'.result = "allowed"
        THEN /\ \A s \in StreamIds \ {last'.streamId} : MapGet(rooms', s) = MapGet(rooms, s)
             /\ MapHas(rooms', last'.streamId)
             /\ aux'[last'.streamId].by = last'.sock
        ELSE \/ (rooms' = rooms /\ aux' = aux)
             \/ \A s \in StreamIds :
                   MapHas(rooms', s)
                   => (MapHas(rooms, s) /\ Identity(rooms', aux', s) = Identity(rooms, aux, s))
      ]_vars

\* Another connection's join-stream for s was answered 'Stream not found'
\* while a create-stream for s that will pass the check is suspended.
C8_Witness ==
    /\ last.kind = "join-stream"
    /\ last.result = "not-found"
    /\ \E p \in pending :
          /\ p.streamId = last.streamId
          /\ p.sock # last.sock
          /\ p.userId \in Creators
    /\ Listed(rooms, last.streamId) = {}

\* C9 (the claim as stated): an event of a connection is handled only when
\* the create-stream events it sent before have come to their outcome.
C9_PerConnectionOrder ==
    last.kind \in {"join-stream", "disconnect"} \cup RelayKinds
    => \A p \in pending : p.sock # last.sock

\* The rooms of the store, by index, that a step changed or deleted.
ChangedAt(rs, rs2) == {j \in 1..Len(rs) : MapGet(rs2, rs[j].streamId) # rs[j]}

\* The store after the first i of the changes a disconnect made, which it
\* makes in the order of the store.
AfterChanges(rs, rs2, i) ==
    SelectSeq(
        [j \in 1..Len(rs) |->
            IF j \in ChangedAt(rs, rs2) /\ Cardinality({k \in ChangedAt(rs, rs2) : k <= j}) <= i
            THEN MapGet(rs2, rs[j].streamId)
            ELSE rs[j]],
        LAMBDA r : r # NoRoom)

\* C10: a step that changes the room store broadcasts one stream-update
\* per change to all connected sockets, each carrying the snapshot as the
\* change left it, and the last thing the step emits is the update with
\* the snapshot of the store it leaves; a step that changes nothing
\* broadcasts no stream-update.
C10_UpdateAfterEveryChange ==
    [][ IF rooms' = rooms /\ ~(last'.kind = "creator-check" /\ last'.result = "allowed")
        THEN \A i \in 1..Len(out') : out'[i].event # "stream-update"
        ELSE LET ups == Emitted(out', "stream-update")
                 n   == IF last'.kind = "creator-check" THEN 1
                        ELSE Cardinality({s \in StreamIds :
                                            MapGet(rooms', s) # MapGet(rooms, s)})
             IN /\ Len(ups) = n
                /\ \A i \in 1..Len(ups) : ups[i].to = Open'
                /\ out'[Len(out')].event = "stream-update"
                /\ ups[n].payload = getActiveStreamsInfo(rooms')
                /\ \A i \in 1..(n - 1) :
                      ups[i].payload = getActiveStreamsInfo(AfterChanges(rooms, rooms', i))
      ]_vars

\* A disconnect deleted one room and took a viewer off another, and sent
\* two updates with different snapshots to a connection that is left.
C10_Witness ==
    /\ last.kind = "disconnect"
    /\ Len(Emitted(out, "stream-update")) = 2
    /\ Emitted(out, "stream-update")[1].payload # Emitted(out, "stream-update")[2].payload
    /\ Emitted(out, "stream-update")[2].payload = getActiveStreamsInfo(rooms)
    /\ Emitted(out, "stream-update")[2].to # {}
    /\ Len(rooms) = 1

\* C11: a join-stream naming a streamId that is not in the room store
\* sends one error {message: "Stream not found"} to the requester and
\* nothing to anyone else, leaves the room store and every group as they
\* were, and broadcasts no stream-update.
C11_JoinUnknownStream ==
    [][ (last'.kind = "join-stream" /\ ~MapHas(rooms, last'.streamId))
        => /\ out' = << Msg("error", {last'.sock}, [message |-> "Stream not found"]) >>
           /\ rooms' = rooms
           /\ groups' = groups
           /\ pending' = pending
      ]_vars

\* A join-stream for a stream that is not live was refused while another
\* room was live and another connection was open.
C11_Witness ==
    /\ last.kind = "join-stream"
    /\ ~MapHas(rooms, last.streamId)
    /\ rooms # <<>>
    /\ Open \ {last.sock} # {}
    /\ Len(out) = 1
    /\ out[1].event = "error"
    /\ out[1].to = {last.sock}
    /\ last.sock \notin groups[last.streamId]

\* The suspended create-stream requests a step brought to their outcome.
Resolved(pend, pend2) == pend \ pend2

\* C12: when the lookup of a create-stream request throws, the requester is
\* sent one stream-creation-failed with the generic text, the room store
\* and the groups are as they were, neither stream-created nor
\* stream-update is sent, and the request is over: it is no longer
\* suspended and no lookup is issued for it again.
C12_LookupErrorFailsOnce ==
    [][ (last'.kind = "creator-check" /\ last'.result = "error")
        => /\ out' = << Msg("stream-creation-failed", {last'.sock} \cap Open,
                            [error |-> "Failed to verify creator status."]) >>
           /\ rooms' = rooms
           /\ groups' = groups
           /\ Cardinality(Resolved(pending, pending')) = 1
           /\ pending' \subseteq pending
           /\ \A p \in Resolved(pending, pending') :
                 /\ p.sock = last'.sock
                 /\ p.streamId = last'.streamId
                 /\ p.userId = last'.userId
      ]_vars

\* The lookup threw for the request of an approved creator, who is still
\* connected and was told so, while another request is still suspended.
C12_Witness ==
    /\ last.kind = "creator-check"
    /\ last.result = "error"
    /\ last.userId \in Creators
    /\ ~MapHas(rooms, last.streamId)
    /\ Len(out) = 1
    /\ out[1].to = {last.sock}
    /\ out[1].payload.error = "Failed to verify creator status."
    /\ pending # {}

\* C13: when the creator check lets a create-stream for s through, the
\* state it leaves has s in the store with the request's userId as
\* broadcaster and no viewers, the requester (if its connection is still
\* there) in the group of s, stream-created {streamId: s} sent to the
\* requester alone, and after it a stream-update to every connection whose
\* snapshot lists s with viewers 0.
C13_AllowedCreateOutcome ==
    (last.kind = "creator-check" /\ last.userId \in Creators /\ last.result # "error")
    => LET s == last.streamId IN
       /\ MapHas(rooms, s)
       /\ MapGet(rooms, s).broadcaster = last.userId
       /\ MapGet(rooms, s).viewers = <<>>
       /\ sockets[last.sock] = "open" => last.sock \in groups[s]
       /\ Len(out) = 2
       /\ out[1] = Msg("stream-created", {last.sock} \cap Open, [streamId |-> s])
       /\ out[2].event = "stream-update"
       /\ out[2].to = Open
       /\ Cardinality({i \in 1..Len(out[2].payload) : out[2].payload[i].id = s}) = 1
       /\ \A i \in 1..Len(out[2].payload) :
             out[2].payload[i].id = s
             => (out[2].payload[i].viewers = 0 /\ out[2].payload[i].streamer = last.userId)

\* The scenario of the claim: the first room of the store was created by a
\* connection that is open with another open beside it; the creator is in
\* the group, was sent stream-created, and both were sent the update.
C13_Witness ==
    /\ last.kind = "creator-check"
    /\ last.result = "allowed"
    /\ Len(rooms) = 1
    /\ last.sock \in groups[last.streamId]
    /\ out[1].event = "stream-created"
    /\ out[1].to = {last.sock}
    /\ Cardinality(out[2].to) = 2
    /\ out[2].payload[1].viewers = 0

\* C14: a join-stream naming a live room s puts the payload's userId at the
\* end of the viewer list of s and changes nothing else in the store, adds
\* the requester to the group of s, and emits three messages: viewer-joined
\* and then stream-started to the members of the group but the requester
\* (the connection that created the room among them while it is open),
\* and last a stream-update to every connection in which the count of s is
\* one higher than it was.
C14_JoinKnownStream ==
    [][ (last'.kind = "join-stream" /\ MapHas(rooms, last'.streamId))
        => LET s == last'.streamId
               c == last'.sock
               u == last'.userId
               others == groups[s] \ {c}
           IN /\ MapGet(rooms', s) =
                    [MapGet(rooms, s) EXCEPT !.viewers = Append(@, u)]
              /\ MapKeys(rooms') = MapKeys(rooms)
              /\ \A s2 \in StreamIds \ {s} : MapGet(rooms', s2) = MapGet(rooms, s2)
              /\ groups' = [groups EXCEPT ![s] = @ \cup {c}]
              /\ Len(out') = 3
              /\ out'[1] = Msg("viewer-joined", others, [userId |-> u, streamId |-> s])
              /\ out'[2] = Msg("stream-started", others, [streamId |-> s, userId |-> u])
              /\ (aux[s].by # c /\ sockets[aux[s].by] = "open") => aux[s].by \in others
              /\ out'[3].event = "stream-update"
              /\ out'[3].to = Open
              /\ \E i \in 1..Len(out'[3].payload) :
                    /\ out'[3].payload[i].id = s
                    /\ out'[3].payload[i].viewers = Len(MapGet(rooms, s).viewers) + 1
      ]_vars

\* A connection joined, under a userId that is not its socket.id, a room
\* another connection created and that had a viewer already: the creator
\* alone was sent viewer-joined and stream-started, and the list ends with
\* the userId.
C14_Witness ==
    /\ last.kind = "join-stream"
    /\ last.result = "joined"
    /\ last.userId # last.sock
    /\ aux[last.streamId].by # last.sock
    /\ out[1].event = "viewer-joined"
    /\ out[1].to = {aux[last.streamId].by}
    /\ out[2].event = "stream-started"
    /\ Len(MapGet(rooms, last.streamId).viewers) = 2
    /\ MapGet(rooms, last.streamId).viewers[2] = last.userId
    /\ MapGet(rooms, last.streamId).viewers[1] # last.userId

\* C15 (the claim as stated): once a stream-ended event naming s has been
\* handled, s is not in the room store, so no snapshot lists it.
C15_StreamEndedDestroysRoom ==
    last.kind = "stream-ended"
    => /\ ~MapHas(rooms, last.streamId)
       /\ Listed(rooms, last.streamId) = {}

\* The stream ids whose room is in the store before and after a step with
\* a different viewer list.
ViewersChanged(rs, rs2) ==
    {s \in StreamIds : /\ MapHas(rs, s)
                       /\ MapHas(rs2, s)
                       /\ MapGet(rs2, s).viewers # MapGet(rs, s).viewers}

\* C16 (the claim as stated): the disconnect of one connection changes the
\* viewer list of at most one room.
C16_AtMostOneRoom ==
    [][ last'.kind = "disconnect" => Cardinality(ViewersChanged(rooms, rooms')) <= 1 ]_vars

\* C16 (amended): the disconnect of a connection takes, from the viewer
\* list of every room that holds the connection's id and does not have it
\* as broadcaster, the first entry equal to that id and no other; a room
\* whose list does not hold the id is as it was; a room with the id as
\* broadcaster is deleted.
C16_FirstEntryOfEachRoom ==
    [][ last'.kind = "disconnect"
        => \A s \in StreamIds :
              MapHas(rooms, s)
              => LET id == last'.sock
                     v  == MapGet(rooms, s).viewers
                 IN IF MapGet(rooms, s).broadcaster = id
                    THEN ~MapHas(rooms', s)
                    ELSE IF \E i \in 1..Len(v) : v[i] = id
                    THEN \E i \in 1..Len(v) :
                            /\ v[i] = id
                            /\ \A j \in 1..(i - 1) : v[j] # id
                            /\ MapGet(rooms', s) =
                                  [MapGet(rooms, s) EXCEPT
                                      !.viewers = SubSeq(v, 1, i - 1) \o SubSeq(v, i + 1, Len(v))]
                    ELSE MapGet(rooms', s) = MapGet(rooms, s)
      ]_vars

\* A disconnect took the connection's id off the viewer lists of two rooms,
\* which both stay in the store: two updates with different snapshots.
C16_Witness ==
    /\ last.kind = "disconnect"
    /\ Len(rooms) = 2
    /\ Len(out) = 2
    /\ out[1].event = "stream-update"
    /\ out[2].event = "stream-update"
    /\ out[1].payload # out[2].payload
    /\ \A i \in 1..2 : \A j \in 1..Len(rooms[i].viewers) : rooms[i].viewers[j] # last.sock

\* The payload a relay event came in with: {streamId, body, userId}, the
\* body under the key of its kind.
Inbound(ev) == [streamId |-> ev.streamId, body |-> ev.result, userId |-> ev.userId]

Snapshots(msgs) == SelectSeq(msgs, LAMBDA m : m.event \in {"stream-update", "callback"})

\* The snapshot entry the claim gives for a room.
EntryOf(room) ==
    [id       |-> room.streamId,
     title    |-> IF room.title = NoValue THEN "Untitled Stream" ELSE room.title,
     viewers  |-> Len(room.viewers),
     category |-> IF room.category = NoValue THEN "Uncategorized" ELSE room.category,
     streamer |-> room.broadcaster,
     isLive   |-> TRUE]

\* The keys of the store keep their order from step to step: the keys that
\* stay are in the order they were in, and a key that comes in goes last.
InsertionOrderKept(rs, rs2) ==
    \E new \in {<<>>} \cup {<<s>> : s \in {s \in StreamIds : ~MapHas(rs, s)}} :
        MapKeys(rs2) = SelectSeq(MapKeys(rs), LAMBDA s : MapHas(rs2, s)) \o new

RoomsAndCounts(snapshot) ==
    {<<snapshot[i].id, snapshot[i].viewers>> : i \in 1..Len(snapshot)}

\* C19: get-active-streams changes neither the room store nor a group nor
\* the suspended requests, and its one message is the reply to the
\* requester; the rooms and counts of the reply are those of the store, so
\* that two requests with the same store between them, from whichever
\* connections, get the same rooms and counts, and a request that comes
\* right after another gets the same reply.
C19_QueryIsPureRead ==
    [][ last'.kind = "get-active-streams"
        => /\ rooms' = rooms
           /\ groups' = groups
           /\ pending' = pending
           /\ Len(out') = 1
           /\ out'[1].event = "callback"
           /\ out'[1].to = {last'.sock}
           /\ RoomsAndCounts(out'[1].payload) =
                 {<<rooms[i].streamId, Len(rooms[i].viewers)>> : i \in 1..Len(rooms)}
           /\ last.kind = "get-active-streams" => out'[1].payload = out[1].payload
      ]_vars

\* A get-active-streams reply to one connection about a live room with a
\* viewer, while the other connection is open and in the room's group.
C19_Witness ==
    /\ last.kind = "get-active-streams"
    /\ out[1].to = {last.sock}
    /\ Cardinality(Open) = 2
    /\ \E s \in StreamIds : <<s, 1>> \in RoomsAndCounts(out[1].payload)
                            /\ groups[s] \ {last.sock} # {}

\* C20: when the creator check lets through a create-stream for a streamId
\* that is in the store, the room under it is replaced, whatever its
\* broadcaster and viewers were: it has the request's userId as
\* broadcaster, the request's title and category and no viewers; it keeps
\* its place in the store and the other rooms are as they were.
C20_LastWriterWins ==
    [][ \A p \in pending :
           (/\ pending' = pending \ {p}
            /\ last'.kind = "creator-check"
            /\ last'.result # "error"
            /\ p.userId \in Creators
            /\ MapHas(rooms, p.streamId))
           => /\ MapGet(rooms', p.streamId) =
                    [streamId    |-> p.streamId,
                     broadcaster |-> p.userId,
                     viewers     |-> <<>>,
                     title       |-> p.title,
                     category    |-> p.category]
              /\ MapKeys(rooms') = MapKeys(rooms)
              /\ \A s \in StreamIds \ {p.streamId} : MapGet(rooms', s) = MapGet(rooms, s)
      ]_vars

\* A create-stream replaced a room that had another broadcaster, a title
\* and a viewer by a room without title and without viewers.
C20_Witness ==
    /\ last.kind = "creator-check"
    /\ last.result = "allowed"
    /\ last.prev \notin {NoValue, last.userId}
    /\ last.prevViewers > 0
    /\ MapGet(rooms, last.streamId).broadcaster = last.userId
    /\ MapGet(rooms, last.streamId).viewers = <<>>
    /\ MapGet(rooms, last.streamId).title = NoValue
    /\ MetasOf(last.prev) = {<<"Live", "Games">>}

\* C21 (the claim as stated): whatever event a connection sends, an event
\* without payload or a get-active-streams without callback included, the
\* process is still there afterwards to handle the events of all
\* connections.
C21_HandlerFailureNeverCrashes ==
    last.kind = "uncaught" => \A c \in Sockets : sockets[c] # "down"

\* C22: every stream-ended a disconnect emits goes to the connections that
\* are left in the group of the room it deleted, and to no one else; the
\* connection that disconnected is not among them.
C22_StreamEndedNotToLeaver ==
    last.kind = "disconnect"
    => \A i \in 1..Len(out) :
          out[i].event = "stream-ended"
          => /\ last.sock \notin out[i].to
             /\ out[i].to = groups[out[i].payload]
             /\ out[i].to \subseteq Open
             /\ ~MapHas(rooms, out[i].payload)

\* The connection that created a room and was in its group disconnected:
\* the room is gone and stream-ended went to the viewer that is left.
C22_Witness ==
    /\ last.kind = "disconnect"
    /\ Len(out) >= 2
    /\ out[1].event = "stream-ended"
    /\ out[1].to # {}
    /\ last.sock \notin out[1].to
    /\ ~MapHas(rooms, out[1].payload)

\* How often id is on a viewer list.
Occurrences(viewers, id) == Cardinality({i \in 1..Len(viewers) : viewers[i] = id})

\* The rooms of the store that have id as broadcaster.
BroadcastBy(rs, id) == {s \in StreamIds : MapHas(rs, s) /\ MapGet(rs, s).broadcaster = id}

\* The rooms of the store that have id on their viewer list and not as
\* broadcaster.
ViewedBy(rs, id) ==
    {s \in StreamIds : /\ MapHas(rs, s)
                       /\ MapGet(rs, s).broadcaster # id
                       /\ Occurrences(MapGet(rs, s).viewers, id) > 0}

\* C23: the cleanup of a disconnect gets to every room that was in the
\* store when it began, whatever it deleted on the way: all the rooms with
\* the connection's id as broadcaster are gone, each with its stream-ended,
\* every room with the id on its viewer list has one entry of the id
\* fewer, and the remaining rooms are as they were and in the order they
\* were in.
C23_CleanupCoversEveryRoom ==
    [][ last'.kind = "disconnect"
        => LET id == last'.sock IN
           /\ \A s \in BroadcastBy(rooms, id) :
                 /\ ~MapHas(rooms', s)
                 /\ \E i \in 1..Len(out') : out'[i].event = "stream-ended" /\ out'[i].payload = s
           /\ \A s \in ViewedBy(rooms, id) :
                 /\ MapHas(rooms', s)
                 /\ Len(MapGet(rooms', s).viewers) = Len(MapGet(rooms, s).viewers) - 1
                 /\ Occurrences(MapGet(rooms', s).viewers, id) =
                       Occurrences(MapGet(rooms, s).viewers, id) - 1
           /\ \A s \in StreamIds \ (BroadcastBy(rooms, id) \cup ViewedBy(rooms, id)) :
                 MapGet(rooms', s) = MapGet(rooms, s)
           /\ MapKeys(rooms') =
                 SelectSeq(MapKeys(rooms), LAMBDA s : s \notin BroadcastBy(rooms, id))
           /\ Len(Emitted(out', "stream-ended")) = Cardinality(BroadcastBy(rooms, id))
      ]_vars

\* A connection that was broadcaster of the first room of the store and
\* viewer of the second disconnected: the first room was deleted, and the
\* cleanup went on to the second and took the viewer off.
C23_Witness ==
    /\ last.kind = "disconnect"
    /\ Len(out) = 3
    /\ out[1].event = "stream-ended"
    /\ out[2].event = "stream-update"
    /\ Len(out[2].payload) = 1
    /\ out[2].payload[1].viewers = 1
    /\ out[3].event = "stream-update"
    /\ out[3].payload[1].viewers = 0
    /\ Len(rooms) = 1
    /\ rooms[1].viewers = <<>>

Rivals(pend, p) == {q \in pend \ {p} : q.streamId = p.streamId}

\* C25: whenever the creator check lets a create-stream through, with
\* other requests for the same streamId in flight or not, its requester is
\* sent stream-created and joins the group (if it is still connected), the
\* members the group has stay in it, the requests still in flight stay in
\* flight, and the room's broadcaster is the userId of this request; so
\* the broadcaster of the room after two requests in flight at once is
\* that of the request whose check returned last, in whichever order the
\* two arrived.
C25_LastResolvedWins ==
    [][ \A p \in pending :
           (/\ pending' = pending \ {p}
            /\ last'.kind = "creator-check"
            /\ last'.result # "error"
            /\ p.userId \in Creators)
           => LET s == p.streamId IN
              /\ MapGet(rooms', s).broadcaster = p.userId
              /\ aux'[s].by = p.sock
              /\ Rivals(pending, p) \subseteq pending'
              /\ groups[s] \subseteq groups'[s]
              /\ p.sock \in Open
                 => /\ p.sock \in groups'[s]
                    /\ out'[1] = Msg("stream-created", {p.sock}, [streamId |-> s])
      ]_vars

\* Two create-stream requests for one streamId, from two connections and
\* both of approved creators, were in flight at once; the check of one has
\* returned, its userId is the broadcaster and its requester is in the
\* group; the other is still suspended.
C25_Witness ==
    /\ last.kind = "creator-check"
    /\ last.result = "allowed"
    /\ MapGet(rooms, last.streamId).broadcaster = last.userId
    /\ last.sock \in groups[last.streamId]
    /\ out[1].event = "stream-created"
    /\ \E q \in pending :
          /\ q.streamId = last.streamId
          /\ q.sock # last.sock
          /\ q.sock \in Open
          /\ q.userId \in Creators
          /\ q.userId # last.userId

\* C26: a connection comes into the group of s only in the step in which
\* its create-stream for s passed the check or its join-stream found the
\* room of s, and goes out of it only in the step of its own disconnect,
\* whatever becomes of the room; and a relay naming s goes to the members
\* of the group but the sender, with or without a room under s.
C26_GroupOutlivesRoom ==
    [][ IF last'.kind \in RelayKinds
        THEN /\ groups' = groups
             /\ out'[1].to = groups[last'.streamId] \ {last'.sock}
        ELSE \/ groups' = groups
             \/ \A s \in StreamIds : \A c \in Sockets :
                   /\ (c \in groups'[s] /\ c \notin groups[s])
                      => /\ last'.sock = c
                         /\ last'.streamId = s
                         /\ \/ last'.kind = "creator-check" /\ last'.userId \in Creators
                            \/ last'.kind = "join-stream" /\ MapHas(rooms, s)
                   /\ (c \in groups[s] /\ c \notin groups'[s])
                      => (last'.kind = "disconnect" /\ last'.sock = c)
      ]_vars

\* A relay naming a streamId whose room is gone (its broadcaster has
\* disconnected) reached a connection that had joined the room.
C26_Witness ==
    /\ last.kind \in RelayKinds
    /\ ~MapHas(rooms, last.streamId)
    /\ out[1].to # {}
    /\ out[1].to \subseteq Open
    /\ \E c \in Sockets : sockets[c] = "closed"

\* C27: an offer, answer or ice-candidate changes neither the room store
\* nor a group nor the suspended requests, and emits one message, of its
\* own kind and so no stream-update, to the members of the named group but
\* the sender, whether the store has a room under that streamId or not and
\* whether the sender is in the group or not.
C27_RelayHasNoPrecondition ==
    [][ last'.kind \in RelayKinds
        => /\ rooms' = rooms
           /\ groups' = groups
           /\ pending' = pending
           /\ Len(out') = 1
           /\ out'[1].event = last'.kind
           /\ out'[1].to = {c \in Open : c \in groups[last'.streamId] /\ c # last'.sock}
      ]_vars

\* A connection that never created or joined the stream it names, and that
\* has no room in the store, relayed to the members its group still has.
C27_Witness ==
    /\ last.kind \in RelayKinds
    /\ ~MapHas(rooms, last.streamId)
    /\ last.sock \notin groups[last.streamId]
    /\ aux[last.streamId].by = NoValue
    /\ out[1].to # {}
    /\ out[1].event = last.kind

\* C28 (the claim as stated): at the entry point a disconnect leaves
\* activeStreams as it was, the viewers counter of a streamId that stays
\* in the map never goes down, and a streamId leaves the map only in the
\* step of a stream-ended that names it.
C28_CounterNeverDecreases ==
    [][ /\ last'.kind = "disconnect" => activeStreams' = activeStreams
        /\ \A s \in StreamIds :
              StreamHas(activeStreams, s)
              => IF StreamHas(activeStreams', s)
                 THEN StreamGet(activeStreams', s).viewers >= StreamGet(activeStreams, s).viewers
                 ELSE last'.kind = "stream-ended" /\ last'.streamId = s
      ]_vars

\* C28 (amended): at the entry point a disconnect leaves activeStreams as
\* it was, and a streamId leaves the map only in the step of a
\* stream-ended that names it; the viewers counter of a streamId that
\* stays in the map goes down only when a further create-stream for that
\* streamId replaces the entry, which sets it to 0.
C28_CounterResetOnlyByCreate ==
    [][ /\ last'.kind = "disconnect" => activeStreams' = activeStreams
        /\ \A s \in StreamIds :
              StreamHas(activeStreams, s)
              => IF StreamHas(activeStreams', s)
                 THEN \/ StreamGet(activeStreams', s).viewers >= StreamGet(activeStreams, s).viewers
                      \/ /\ last'.kind = "create-stream"
                         /\ last'.streamId = s
                         /\ StreamGet(activeStreams', s).viewers = 0
                 ELSE last'.kind = "stream-ended" /\ last'.streamId = s
      ]_vars

\* The connection that created a stream and the one that joined it have
\* both disconnected, and the stream is in the map with its viewer counted.
C28_Witness ==
    /\ last.kind = "disconnect"
    /\ \A c \in Clients : sockets[c] = "closed"
    /\ \E s \in StreamIds :
          /\ StreamHas(activeStreams, s)
          /\ StreamGet(activeStreams, s).viewers = 1
          /\ aux[s].by \in Clients
          /\ aux[s].joinedBy # <<>>
          /\ aux[s].joinedBy[1] # aux[s].by

\* C29: at the entry point a stream-ended naming s, from whichever
\* connection, takes s out of activeStreams, leaves the other entries as
\* they were and broadcasts one stream-update with the entries that are
\* left to every connection.
C29_AnyoneEndsStream ==
    [][ last'.kind = "stream-ended"
        => LET s == last'.streamId IN
           /\ ~StreamHas(activeStreams', s)
           /\ activeStreams' = SelectSeq(activeStreams, LAMBDA v : v.id # s)
           /\ out' = << Msg("stream-update", Open, activeStreams') >>
      ]_vars

\* A stream-ended from a connection that did not create the stream took it
\* out of the map while the connection that created it is still there, and
\* the update went to both.
C29_Witness ==
    /\ last.kind = "stream-ended"
    /\ last.prev \notin {NoValue, last.sock}
    /\ sockets[last.prev] = "open"
    /\ ~StreamHas(activeStreams, last.streamId)
    /\ out[1].event = "stream-update"
    /\ out[1].to = {last.sock, last.prev}
    /\ activeStreams # <<>>

\* The rooms of the store, by index, that name id as broadcaster or have it
\* on their viewer list.
Involved(rs, id) ==
    {j \in 1..Len(rs) : rs[j].broadcaster = id \/ Occurrences(rs[j].viewers, id) > 0}

\* The store with the first k of the rooms that involve id cleaned up, in
\* the order of the store: a room id broadcasts is gone, another room has
\* lost the first entry of id on its viewer list.
CleanedUpTo(rs, id, k) ==
    SelectSeq(
        [j \in 1..Len(rs) |->
            IF j \in Involved(rs, id) /\ Cardinality({i \in Involved(rs, id) : i <= j}) <= k
            THEN IF rs[j].broadcaster = id
                 THEN NoRoom
                 ELSE [rs[j] EXCEPT !.viewers = Splice1(@, FindIndex(@, id))]
            ELSE rs[j]],
        LAMBDA r : r # NoRoom)

\* C30: a disconnect broadcasts as many stream-update messages as there
\* are rooms that name the disconnected socket's id as broadcaster or on
\* their viewer list (none when no room does), and the k-th of them
\* carries the snapshot of the store with the first k of these rooms
\* cleaned up and the later ones as they were.
C30_OneUpdatePerInvolvedRoom ==
    [][ last'.kind = "disconnect"
        => LET id  == last'.sock
               ups == Emitted(out', "stream-update")
               n   == Cardinality(Involved(rooms, id))
           IN /\ Len(ups) = n
              /\ \A k \in 1..n :
                    ups[k].payload = getActiveStreamsInfo(CleanedUpTo(rooms, id, k))
      ]_vars

\* A disconnect took its socket off the viewer list of the room visited
\* first and deleted the room visited second: the first update still lists
\* both rooms, the first with no viewer, and the second lists one.
C30_Witness ==
    /\ last.kind = "disconnect"
    /\ Len(Emitted(out, "stream-update")) = 2
    /\ Len(Emitted(out, "stream-update")[1].payload) = 2
    /\ Len(Emitted(out, "stream-update")[2].payload) = 1
    /\ Emitted(out, "stream-update")[1].payload[1] = Emitted(out, "stream-update")[2].payload[1]
    /\ Emitted(out, "stream-update")[1].to # {}
    /\ out[1].event = "stream-update"

====
